---- MODULE Spec2Model ----
(***************************************************************************)
(* roach-bench: the concurrent data generator (generate.go, ddls.go) and   *)
(* the benchmark harness loop (main).                                      *)
(*                                                                         *)
(* Spec      data generation: generateData, one tableWriter per table.     *)
(* Bench     the benchmark phase of main: workers, ticks, termination.     *)
(***************************************************************************)
EXTENDS Integers, Sequences, FiniteSets, Bags, TLC

(***************************************************************************)
(* Bounds.  batchSize is 500 and textLen is 42 in generate.go:16-17; the   *)
(* model scales them down so that several batches fit in a small table.    *)
(***************************************************************************)
batchSize == 2
textLen == 2
\* Row targets: every combination of up to MaxRows merchants, products and
\* variants and up to MaxStores stores, and variant tables of up to
\* MaxVariants rows (several batches) beside one merchant and one product.
MaxRows == 2
MaxStores == 2
MaxVariants == 5

\* Benchmark phase: the largest --concurrency, and how many samples a worker
\* records, ticks time.Tick delivers and signals arrive within a run.
MaxWorkers == 2
MaxSamples == 2
MaxTicks == 2
MaxSignals == 2

\* generate.go:18-19
intMax == 42
decMax == 42

\* The values of the --seed flag that are explored.
Seeds == {1, 42}

\* The values of --merchants, --products, --variants, --stores explored.
RowTargets ==
    ((0..MaxRows) \X (0..MaxRows) \X (0..MaxRows) \X (0..MaxStores))
        \cup {<< 1, 1, v, 0 >> : v \in 0..MaxVariants}

(***************************************************************************)
(* Bytes.  Buffers are sequences of ASCII codes.                           *)
(***************************************************************************)
LParen == 40
RParen == 41
Comma == 44
Quote == 39
Dot == 46
Digit0 == 48

IsDigit(b) == b >= Digit0 /\ b <= Digit0 + 9

\* "abcdefghijklmnopqrstuvwxyzABCDEFGHIJKLMNOPQRSTUVWXYZ1234567890"
textChars ==
    [i \in 1..62 |->
        IF i <= 26 THEN 96 + i
        ELSE IF i <= 52 THEN 64 + (i - 26)
        ELSE IF i <= 61 THEN Digit0 + (i - 52)
        ELSE Digit0]

\* strconv.Itoa for n >= 0: the decimal digits of n, most significant first.
RECURSIVE Itoa(_)
Itoa(n) ==
    IF n < 10 THEN << Digit0 + n >>
    ELSE Append(Itoa(n \div 10), Digit0 + (n % 10))

(***************************************************************************)
(* math/rand.  The library's generator is not part of the repository; it   *)
(* is modelled as a Lehmer generator (x' = 75 x mod 65537), which keeps    *)
(* what the writers rely on: a stream is a function of its seed alone,     *)
(* Intn(n) is in [0, n) and panics for n <= 0, Float64 is in [0, 1).       *)
(***************************************************************************)
RndMod == 65537
RndMul == 75

\* rand.NewSource(seed): the state of a fresh stream.
NewSource(s) == 1 + (s % (RndMod - 1))

\* One step of the stream: the new state, which is also the raw output.
RndStep(x) == (RndMul * x) % RndMod

\* r.Intn(n): panics for n <= 0, else draws once and reduces the raw output
\* to [0, n).
Intn(x, n) ==
    [panicked |-> n <= 0,
     v |-> IF n > 0 THEN RndStep(x) % n ELSE 0,
     rnd |-> RndStep(x)]

\* r.Float64() * decMax rendered by "%.2f": the value in hundredths,
\* rounded to nearest.
Float64Hundredths(x) == (2 * RndStep(x) * decMax * 100 + RndMod) \div (2 * RndMod)

(***************************************************************************)
(* Schema catalog (ddls.go).                                               *)
(***************************************************************************)
Normal == "normal"
Interleaved == "interleaved"

Merchant == "merchant"
Product == "product"
Variant == "variant"
Store == "store"
ProductInterleaved == "product (interleaved)"
VariantInterleaved == "variant (interleaved)"
StoreInterleaved == "store (interleaved)"

TableNames ==
    {Merchant, Product, Variant, Store,
     ProductInterleaved, VariantInterleaved, StoreInterleaved}

interleaveName ==
    (Product :> ProductInterleaved) @@ (Variant :> VariantInterleaved)
        @@ (Store :> StoreInterleaved)

\* The table whose entries initDDL copies to t (t itself for a flat table).
BaseTable(t) ==
    IF \E b \in DOMAIN interleaveName : interleaveName[b] = t
    THEN CHOOSE b \in DOMAIN interleaveName : interleaveName[b] = t
    ELSE t

\* The literal of ddls.go:113-118.
tableTypesLiteral ==
    (Merchant :> << "PkeyInt", "Text", "Text" >>)
    @@ (Product :> << "FkeyInt", "PkeyInt", "Text", "Text" >>)
    @@ (Variant :> << "FkeyInt", "FkeyInt", "PkeyInt", "Text", "Int", "Dec" >>)
    @@ (Store :> << "FkeyInt", "PkeyInt", "Text", "Text" >>)

\* The literal of ddls.go:38-78: a statement is the sequence of the texts it
\* was put together from.
ddlStmtsLiteral ==
    (Merchant :> << "create table merchant (m_id, m_name, m_address)" >>)
    @@ (Product :> << "create table product (p_m_id, p_id, p_name, p_desc)" >>)
    @@ (Variant :> << "create table variant (v_m_id, v_p_id, v_id, v_name, v_qty, v_price)" >>)
    @@ (Store :> << "create table store (s_m_id, s_id, s_name, s_address)" >>)

\* The literal of ddls.go:80-101.
insertStmtsLiteral ==
    (Merchant :> "insert into merchant (m_id, m_name, m_address) values")
    @@ (Product :> "insert into product (p_m_id, p_id, p_name, p_desc) values")
    @@ (Variant :> "insert into variant (v_m_id, v_p_id, v_id, v_name, v_qty, v_price) values")
    @@ (Store :> "insert into store (s_m_id, s_id, s_name, s_address) values")

toInterleave ==
    << [name |-> Product, interleaveStmt |-> " interleave in parent merchant (p_m_id)"],
       [name |-> Variant, interleaveStmt |-> " interleave in parent product (v_m_id, v_p_id)"],
       [name |-> Store, interleaveStmt |-> " interleave in parent merchant (s_m_id)"] >>

\* The zero value of tableName: what interleaveName yields for a name that
\* is not one of its keys.
NoName == ""

\* interleaveName[name] as Go evaluates it.
InterleaveNameOf(name) ==
    IF name \in DOMAIN interleaveName THEN interleaveName[name] ELSE NoName

\* fmt.Sprintf("%s %s", stmt, interleaveStmt)
SprintfInterleave(stmt, interleaveStmt) == stmt \o << " ", interleaveStmt >>

\* fmt.Sprintf("%s;", stmt) of a statement that has its semicolon already.
SprintfSemicolon_Again(stmt) == stmt \o << ";", ";" >>

\* fmt.Sprintf("%s;", stmt)
SprintfSemicolon(stmt) == stmt \o << ";" >>

variantTables ==
    (Normal :> << Merchant, Product, Variant, Store >>)
    @@ (Interleaved :>
          << Merchant, ProductInterleaved, VariantInterleaved, StoreInterleaved >>)

(***************************************************************************)
(* State.                                                                  *)
(***************************************************************************)
VARIABLES
    seed,           \* --seed
    nMerchants,     \* --merchants
    nProducts,      \* --products
    nVariants,      \* --variants
    nStores,        \* --stores
    schemaVar,      \* --variant
    mainPc,         \* where the main goroutine is
    spawned,        \* how many tables generateData's loop has gone through
    wg,             \* the WaitGroup counter of generateData
    tw,             \* the tableWriter of each table
    pc,             \* where each table's insertData goroutine is
    remainingRows,  \* insertData's local, per table
    curBatch,       \* insertData's local, per table
    submitted,      \* per table, the db.Exec calls made, in order
    halted          \* the process has exited (log.Fatal or a panic)

\* The benchmark phase of main (part_000:329-428).
VARIABLES
    concurrency,    \* --concurrency
    duration,       \* --duration
    workers,        \* where each worker's goroutine is
    latency,        \* per worker, the samples in its histogram's window
    mu,             \* per worker, who holds its histogram's lock
    recorded,       \* per worker and sample, the drains that preceded it
    benchWg,        \* the WaitGroup counter of the benchmark phase
    tick,           \* the time.Tick channel holds a tick
    ticks,          \* ticks delivered so far
    done,           \* the done channel: the producers of its events
    signals,        \* SIGINT/SIGTERM delivered so far
    waiterPc,       \* the goroutine of wg.Wait(); done <- ...
    sleeperPc,      \* the goroutine of time.Sleep(*duration); done <- ...
    iLoop,          \* the loop's i: its count of tick reports
    hTick,          \* the tick case's h: its accumulator
    widx,           \* the index of a range-over-workers loop
    cumLatency,     \* the cumulative histogram
    received,       \* the producers of the events the loop has received
    snapshots,      \* per worker, the snapshots its drains returned
    tickAccs,       \* the tick accumulators merged into cumLatency
    out,            \* the lines printed on standard output
    numOps,         \* the global operation counter
    opsA,           \* numOps as the tick case's read of it began
    ops,            \* the value the loop last read from numOps
    lastOps         \* the loop's lastOps

\* The package-level maps of ddls.go and initDDL's position (ddls.go:157-188).
VARIABLES
    pkg,            \* the maps ddlStmts, tableTypes, insertStmts, tableRows
    ddlPc,          \* where initDDL is
    ranged          \* the state of initDDL's current range over a map

\* main's preparation (part_000:237-327).
VARIABLES
    drop,           \* --drop
    load,           \* --load
    loadfile,       \* --load-file is given
    dumpfile,       \* --dump-file is given
    dbms,           \* --dbms
    pool,           \* the connection pool's limits and the step that set them
    ddlIdx          \* the DDL statements loadSchema has executed

genVars ==
    << seed, nMerchants, nProducts, nVariants, nStores, schemaVar,
       spawned, wg, tw, pc, remainingRows, curBatch, submitted >>

benchVars ==
    << concurrency, duration, workers, latency, mu, recorded, benchWg, tick,
       ticks, done, signals, waiterPc, sleeperPc, iLoop, hTick, widx,
       cumLatency,
       received, snapshots, tickAccs, out, numOps, opsA, ops, lastOps >>

prepVars == << drop, load, loadfile, dumpfile, dbms, pool, ddlIdx >>

\* What init() and main's preparation set, and data generation and the
\* benchmark phase leave alone.
startVars == << pkg, ddlPc, ranged, prepVars >>

vars == << genVars, benchVars, startVars, mainPc, halted >>

ddlStmts == pkg.ddlStmts
tableTypes == pkg.tableTypes
insertStmts == pkg.insertStmts

Workers == 1..MaxWorkers

\* var h *hdrhistogram.Histogram (part_000:370): nil until assigned.
NilHistogram == [nil |-> TRUE, hist |-> EmptyBag]

\* The benchmark phase before main reaches it, under flags c and d.
BenchIdle(c, d) ==
    /\ concurrency = c
    /\ duration = d
    /\ workers = [w \in Workers |-> "none"]
    /\ latency = [w \in Workers |-> EmptyBag]
    /\ mu = [w \in Workers |-> "free"]
    /\ recorded = [w \in Workers |-> << >>]
    /\ benchWg = 0
    /\ tick = FALSE
    /\ ticks = 0
    /\ done = << >>
    /\ signals = 0
    /\ waiterPc = "none"
    /\ sleeperPc = "none"
    /\ iLoop = 0
    /\ hTick = NilHistogram
    /\ widx = 0
    /\ cumLatency = EmptyBag
    /\ received = << >>
    /\ snapshots = [w \in Workers |-> << >>]
    /\ tickAccs = << >>
    /\ out = << >>
    /\ numOps = 0
    /\ opsA = 0
    /\ ops = 0
    /\ lastOps = 0

\* tables, as init() of main sets it.
tables == variantTables[schemaVar]

\* The pool as connectDB leaves it (part_000:231-232).
PoolOfConnectDB ==
    [maxOpenConns |-> Len(variantTables[schemaVar]) + 1,
     maxIdleConns |-> Len(variantTables[schemaVar]) + 1,
     setBy |-> "connectDB"]

\* main was started with --load --dump-file=... and has created the schema.
Loading ==
    /\ drop = FALSE
    /\ load = TRUE
    /\ loadfile = FALSE
    /\ dumpfile = TRUE
    /\ dbms = "cockroach"
    /\ pool = PoolOfConnectDB
    /\ ddlIdx = Len(tables)

\* main was started without any preparation flag.
NothingToPrepare ==
    /\ drop = FALSE
    /\ load = FALSE
    /\ loadfile = FALSE
    /\ dumpfile = FALSE
    /\ dbms = "cockroach"
    /\ pool = PoolOfConnectDB
    /\ ddlIdx = 0

\* Where main goes on after the step at p.
PhaseAfter(p) ==
    LET afterLoad == IF dumpfile THEN "maindump" ELSE "benchmark"
        afterReconnect ==
            IF loadfile THEN "loadfile" ELSE IF load THEN "schema" ELSE afterLoad
        afterCreate ==
            IF dbms = "postgres" /\ (drop \/ load \/ loadfile)
            THEN "reconnect" ELSE afterReconnect
        afterDrop == IF drop \/ loadfile \/ load THEN "create" ELSE afterCreate
    IN  CASE p = "connect" -> IF drop THEN "drop" ELSE afterDrop
          [] p = "drop" -> afterDrop
          [] p = "create" -> afterCreate
          [] p = "reconnect" -> afterReconnect
          [] p \in {"loadfile", "constraints"} -> afterLoad
          [] p = "maindump" -> "benchmark"

tableRows == pkg.tableRows

\* No range over a map is running.  visited: the keys the range has
\* produced; fresh: the keys created while it runs.
NoRange == [visited |-> {}, fresh |-> {}]

\* The maps as the package initialisers leave them.
PkgLiteral ==
    [ddlStmts |-> ddlStmtsLiteral,
     tableTypes |-> tableTypesLiteral,
     insertStmts |-> insertStmtsLiteral,
     tableRows |-> << >>]

\* The clause toInterleave gives for base table b.
InterleaveStmtOf(b) ==
    LET k == CHOOSE j \in 1..Len(toInterleave) : toInterleave[j].name = b
    IN  toInterleave[k].interleaveStmt

\* The entries of the seven tables after initDDL (ddls.go:157-188), as the
\* data generation and loadSchema read them.
PkgAfterInitDDL ==
    [ddlStmts |->
        [t \in TableNames |->
            IF BaseTable(t) = t THEN SprintfSemicolon(ddlStmtsLiteral[t])
            ELSE SprintfSemicolon(SprintfInterleave(ddlStmtsLiteral[BaseTable(t)],
                                                    InterleaveStmtOf(BaseTable(t))))],
     tableTypes |-> [t \in TableNames |-> tableTypesLiteral[BaseTable(t)]],
     insertStmts |-> [t \in TableNames |-> insertStmtsLiteral[BaseTable(t)]],
     tableRows |->
        [t \in TableNames |->
            CASE BaseTable(t) = Merchant -> nMerchants
              [] BaseTable(t) = Product -> nProducts
              [] BaseTable(t) = Variant -> nVariants
              [] BaseTable(t) = Store -> nStores]]

\* init() has run initDDL.
InitDDLDone ==
    /\ pkg = PkgAfterInitDDL
    /\ ddlPc = "done"
    /\ ranged = NoRange

(***************************************************************************)
(* Byte slices.  A slice is a backing array and a length: s[:0] keeps the  *)
(* array, append writes past the length and grows the array when needed.   *)
(***************************************************************************)
EmptySlice == [arr |-> << >>, len |-> 0]

\* make([]byte, 0, n)
MakeSlice(n) == [arr |-> [i \in 1..n |-> 0], len |-> 0]

\* A reslice that keeps the length.
Reslice0_KeepsLength(s) == s

\* s[:0]
Reslice0(s) == [arr |-> s.arr, len |-> 0]

\* append(s, bs...)
AppendBytes(s, bs) ==
    [arr |-> SubSeq(s.arr, 1, s.len) \o bs
                \o SubSeq(s.arr, s.len + Len(bs) + 1, Len(s.arr)),
     len |-> s.len + Len(bs)]

\* string(s)
SliceString(s) == SubSeq(s.arr, 1, s.len)

(***************************************************************************)
(* tableWriter (generate.go).  The operators below work on a generation    *)
(* state g = [values, pkey, rnd, scratch, panicked]: the batch buffer      *)
(* being filled and the writer fields genValues changes.                   *)
(***************************************************************************)
NoWriter == [pkey |-> 0, rnd |-> 0, scratch |-> EmptySlice, valuesBuf |-> EmptySlice]

\* A newWriter that starts the primary key at 0.
NewWriterValue_PkeyZero ==
    [pkey |-> 0,
     rnd |-> NewSource(seed),
     scratch |-> MakeSlice(textLen + 2),
     valuesBuf |-> EmptySlice]

\* A newWriter whose seed depends on the tables spawned before its own.
NewWriterValue_SeedBySpawned ==
    [pkey |-> 1,
     rnd |-> NewSource(seed + spawned),
     scratch |-> MakeSlice(textLen + 2),
     valuesBuf |-> EmptySlice]

\* A newWriter whose seed depends on the writers running when it is called.
NewWriterValue_SeedByRunning ==
    [pkey |-> 1,
     rnd |-> NewSource(seed + wg),
     scratch |-> MakeSlice(textLen + 2),
     valuesBuf |-> EmptySlice]

\* newWriter's tableWriter value (generate.go:72-84).
NewWriterValue ==
    [pkey |-> 1,
     rnd |-> NewSource(seed),
     scratch |-> MakeSlice(textLen + 2),
     valuesBuf |-> EmptySlice]

\* A randFkeyInt that forgets the "+ 1": values in [0, P).
randFkeyInt_ZeroBased(t, cidx, rnd) ==
    LET bound ==
            CASE t \in {Product, ProductInterleaved, Store, StoreInterleaved} ->
                    nMerchants
              [] t \in {Variant, VariantInterleaved} ->
                    IF cidx = 0 THEN nMerchants
                    ELSE IF cidx = 1 THEN nProducts
                    ELSE -1
              [] OTHER -> -1
        r == Intn(rnd, bound)
    IN  [panicked |-> r.panicked, temp |-> Itoa(r.v), rnd |-> r.rnd]

\* randFkeyInt: [panicked, temp, rnd].
randFkeyInt(t, cidx, rnd) ==
    LET bound ==
            CASE t \in {Product, ProductInterleaved, Store, StoreInterleaved} ->
                    nMerchants
              [] t \in {Variant, VariantInterleaved} ->
                    IF cidx = 0 THEN nMerchants
                    ELSE IF cidx = 1 THEN nProducts
                    ELSE -1      \* panic("invalid fkey column index")
              [] OTHER -> -1     \* panic("unsupported table for fkey generation")
        r == Intn(rnd, bound)
    IN  [panicked |-> r.panicked, temp |-> Itoa(r.v + 1), rnd |-> r.rnd]

\* randInt: [temp, rnd].
randInt(rnd) ==
    LET r == Intn(rnd, intMax)
    IN  [temp |-> Itoa(r.v), rnd |-> r.rnd]

\* The loop of randText: i characters appended to scratch.
RECURSIVE randTextChars(_, _, _)
randTextChars(scratch, rnd, i) ==
    IF i = 0 THEN [scratch |-> scratch, rnd |-> rnd]
    ELSE LET r == Intn(rnd, Len(textChars))
         IN  randTextChars(AppendBytes(scratch, << textChars[r.v + 1] >>),
                           r.rnd, i - 1)

\* randText: [scratch, rnd]; the value returned is the slice scratch.
randText(twScratch, rnd) ==
    LET s0 == AppendBytes(Reslice0(twScratch), << Quote >>)
        s1 == randTextChars(s0, rnd, textLen)
    IN  [scratch |-> AppendBytes(s1.scratch, << Quote >>), rnd |-> s1.rnd]

\* randDec: [temp, rnd].
randDec(rnd) ==
    LET h == Float64Hundredths(rnd)
    IN  [temp |-> Itoa(h \div 100) \o << Dot, Digit0 + ((h \div 10) % 10),
                                         Digit0 + (h % 10) >>,
         rnd |-> RndStep(rnd)]

\* One iteration of genValues' inner loop: column cidx (from 0) of table t.
genColumn(t, g, cidx) ==
    LET c == tableTypes[t][cidx + 1]
        v0 == IF cidx > 0 THEN AppendBytes(g.values, << Comma >>) ELSE g.values
    IN  CASE c = "PkeyInt" ->
                [g EXCEPT !.values = AppendBytes(v0, Itoa(g.pkey)),
                          !.pkey = g.pkey + 1]
          [] c = "FkeyInt" ->
                LET r == randFkeyInt(t, cidx, g.rnd)
                IN  IF r.panicked THEN [g EXCEPT !.panicked = TRUE]
                    ELSE [g EXCEPT !.values = AppendBytes(v0, r.temp),
                                   !.rnd = r.rnd]
          [] c = "Int" ->
                LET r == randInt(g.rnd)
                IN  [g EXCEPT !.values = AppendBytes(v0, r.temp), !.rnd = r.rnd]
          [] c = "Text" ->
                LET r == randText(g.scratch, g.rnd)
                IN  [g EXCEPT !.values = AppendBytes(v0, SliceString(r.scratch)),
                              !.scratch = Reslice0(r.scratch),
                              !.rnd = r.rnd]
          [] c = "Dec" ->
                LET r == randDec(g.rnd)
                IN  [g EXCEPT !.values = AppendBytes(v0, r.temp), !.rnd = r.rnd]
          [] OTHER -> [g EXCEPT !.panicked = TRUE]   \* panic("undefined column type")

\* genValues' inner loop from column cidx on.
RECURSIVE genColumns(_, _, _)
genColumns(t, g, cidx) ==
    IF g.panicked \/ cidx >= Len(tableTypes[t]) THEN g
    ELSE genColumns(t, genColumn(t, g, cidx), cidx + 1)

\* One iteration of genValues' outer loop: tuple i (from 0).
genTuple(t, g, i) ==
    LET v0 == IF i > 0 THEN AppendBytes(g.values, << Comma >>) ELSE g.values
        g1 == genColumns(t, [g EXCEPT !.values = AppendBytes(v0, << LParen >>)], 0)
    IN  IF g1.panicked THEN g1
        ELSE [g1 EXCEPT !.values = AppendBytes(g1.values, << RParen >>)]

\* genValues' outer loop from tuple i on.
RECURSIVE genTuples(_, _, _, _)
genTuples(t, g, i, nTuples) ==
    IF g.panicked \/ i >= nTuples THEN g
    ELSE genTuples(t, genTuple(t, g, i), i + 1, nTuples)

\* tw.genValues(nTuples) on the writer w of table t: the generation state at
\* its return (values is the slice returned) or at its panic.
genValues(t, w, nTuples) ==
    genTuples(t,
              [values |-> Reslice0(w.valuesBuf), pkey |-> w.pkey, rnd |-> w.rnd,
               scratch |-> w.scratch, panicked |-> FALSE],
              0, nTuples)

(***************************************************************************)
(* Reading a submitted value list back, as the database does: the tuples   *)
(* of an INSERT's VALUES list, each a sequence of fields (byte strings).   *)
(***************************************************************************)
\* The positions of byte b in bs that are outside quoted strings: those
\* with an even number of quotes before them.
Structural(bs, b) ==
    LET quotes == {j \in 1..Len(bs) : bs[j] = Quote}
    IN  {i \in 1..Len(bs) :
            /\ bs[i] = b
            /\ Cardinality({j \in quotes : j < i}) % 2 = 0}

Min(S) == CHOOSE x \in S : \A y \in S : x <= y

\* The fields of a tuple's body, split at its structural commas.
RECURSIVE SplitFields(_)
SplitFields(bs) ==
    LET cs == Structural(bs, Comma)
    IN  IF cs = {} THEN << bs >>
        ELSE << SubSeq(bs, 1, Min(cs) - 1) >>
                \o SplitFields(SubSeq(bs, Min(cs) + 1, Len(bs)))

\* The tuples of a value list: each runs from a structural "(" to the next
\* structural ")".
RECURSIVE ParseValues(_)
ParseValues(bs) ==
    LET os == Structural(bs, LParen)
    IN  IF os = {} THEN << >>
        ELSE LET o == Min(os)
                 c == Min({i \in Structural(bs, RParen) : i > o})
             IN  << SplitFields(SubSeq(bs, o + 1, c - 1)) >>
                    \o ParseValues(SubSeq(bs, c + 1, Len(bs)))

\* db.Exec of an INSERT with value list bs, returning ok: the call as the
\* database sees it.
ExecCall(bs, ok) == [values |-> bs, ok |-> ok, rows |-> ParseValues(bs)]

(***************************************************************************)
(* Data generation: generateData and the insertData goroutines.            *)
(***************************************************************************)
\* main is about to call generateData: the flags, no writer yet.
Start ==
    /\ seed \in Seeds
    /\ \E rt \in RowTargets :
          /\ nMerchants = rt[1]
          /\ nProducts = rt[2]
          /\ nVariants = rt[3]
          /\ nStores = rt[4]
    /\ schemaVar \in {Normal, Interleaved}
    /\ mainPc = "spawn"
    /\ spawned = 0
    /\ wg = 0
    /\ tw = [t \in TableNames |-> NoWriter]
    /\ pc = [t \in TableNames |-> "none"]
    /\ remainingRows = [t \in TableNames |-> 0]
    /\ curBatch = [t \in TableNames |-> 0]
    /\ submitted = [t \in TableNames |-> << >>]
    /\ halted = FALSE
    /\ BenchIdle(1, 0)

Init ==
    /\ Start
    /\ InitDDLDone
    /\ Loading

flags == << seed, nMerchants, nProducts, nVariants, nStores, schemaVar >>

\* One iteration of generateData's loop: newWriter (wg.Add(1), the writer's
\* fields) and go writer.insertData; after the last table, on to wg.Wait().
NewWriterAndGo ==
    /\ ~halted
    /\ mainPc = "spawn"
    /\ spawned < Len(tables)
    /\ LET t == tables[spawned + 1]
       IN  /\ wg' = wg + 1
           /\ tw' = [tw EXCEPT ![t] = NewWriterValue]
           /\ pc' = [pc EXCEPT ![t] = "started"]
    /\ spawned' = spawned + 1
    /\ mainPc' = IF spawned + 1 = Len(tables) THEN "wait" ELSE "spawn"
    /\ UNCHANGED << benchVars, startVars, flags, remainingRows, curBatch, submitted, halted >>

\* remainingRows and curBatch at the loop test of insertData: as initialised
\* by a goroutine that has just started, else as the last iteration left them.
RemainingAtTest(t) == IF pc[t] = "started" THEN tableRows[t] ELSE remainingRows[t]

CurBatchAtTest(t) == IF pc[t] = "started" THEN batchSize ELSE curBatch[t]

\* A loop body that never shortens the last batch.
NextBatch_NeverShortened(t) == CurBatchAtTest(t)

\* curBatch as the loop body sets it before generating.
NextBatch(t) ==
    IF RemainingAtTest(t) < CurBatchAtTest(t) THEN RemainingAtTest(t)
    ELSE CurBatchAtTest(t)

\* The writer after genValues returned g and its result was stored.
WriterAfter(w, g) ==
    [pkey |-> g.pkey, rnd |-> g.rnd, scratch |-> g.scratch, valuesBuf |-> g.values]

\* An iteration whose db.Exec error is dropped: the loop goes on.
ExecBatch_ErrorIgnored(t, g, ok) ==
    /\ tw' = [tw EXCEPT ![t] = WriterAfter(tw[t], g)]
    /\ submitted' =
         [submitted EXCEPT ![t] = Append(@, ExecCall(SliceString(g.values), ok))]
    /\ remainingRows' =
         [remainingRows EXCEPT
            ![t] = IF ok THEN RemainingAtTest(t) - NextBatch(t) ELSE RemainingAtTest(t)]
    /\ pc' = [pc EXCEPT ![t] = "loop"]
    /\ halted' = FALSE

\* The rest of an iteration of insertData's loop once genValues has
\* returned g: db.Exec with the value list, which succeeds (ok) or returns
\* an error, on which log.Fatal prints it and exits the process.
ExecBatch(t, g, ok) ==
    /\ tw' = [tw EXCEPT ![t] = WriterAfter(tw[t], g)]
    /\ submitted' =
         [submitted EXCEPT ![t] = Append(@, ExecCall(SliceString(g.values), ok))]
    /\ remainingRows' =
         [remainingRows EXCEPT
            ![t] = IF ok THEN RemainingAtTest(t) - NextBatch(t) ELSE RemainingAtTest(t)]
    /\ pc' = [pc EXCEPT ![t] = IF ok THEN "loop" ELSE "fatal"]
    /\ halted' = ~ok

\* An iteration of insertData's loop in which genValues panics: the runtime
\* ends the process.
GenValuesPanics(t) ==
    /\ remainingRows' = [remainingRows EXCEPT ![t] = RemainingAtTest(t)]
    /\ pc' = [pc EXCEPT ![t] = "panic"]
    /\ halted' = TRUE
    /\ UNCHANGED << tw, submitted >>

\* One iteration of insertData's loop: the size of the batch, genValues,
\* db.Exec, remainingRows.
InsertBatch(t) ==
    /\ ~halted
    /\ pc[t] \in {"started", "loop"}
    /\ RemainingAtTest(t) > 0
    /\ curBatch' = [curBatch EXCEPT ![t] = NextBatch(t)]
    /\ \E g \in {genValues(t, tw[t], NextBatch(t))} :
          IF g.panicked THEN GenValuesPanics(t)
          ELSE \E ok \in BOOLEAN : ExecBatch(t, g, ok)
    /\ UNCHANGED << benchVars, startVars, flags, mainPc, spawned, wg >>

\* insertData's loop exit: the completion message and wg.Add(-1).
InsertDataReturns(t) ==
    /\ ~halted
    /\ pc[t] \in {"started", "loop"}
    /\ RemainingAtTest(t) <= 0
    /\ remainingRows' = [remainingRows EXCEPT ![t] = RemainingAtTest(t)]
    /\ curBatch' = [curBatch EXCEPT ![t] = CurBatchAtTest(t)]
    /\ wg' = wg - 1
    /\ pc' = [pc EXCEPT ![t] = "done"]
    /\ UNCHANGED << benchVars, startVars, flags, mainPc, spawned, tw, submitted, halted >>

\* wg.Wait() returns.
WaitReturns ==
    /\ ~halted
    /\ mainPc = "wait"
    /\ wg = 0
    /\ mainPc' = "dump"
    /\ UNCHANGED << benchVars, startVars, flags, spawned, wg, tw, pc, remainingRows, curBatch, submitted, halted >>

\* generateData's dump step succeeds and generateData returns nil; main goes
\* on to applyConstraints.  ioutil.WriteFile fails when --dump-file is empty.
DumpDone ==
    /\ ~halted
    /\ mainPc = "dump"
    /\ dumpfile
    /\ mainPc' = "constraints"
    /\ UNCHANGED << benchVars, startVars, flags, spawned, wg, tw, pc, remainingRows, curBatch, submitted, halted >>

\* generateData's dump step fails, generateData returns the error and main's
\* log.Fatal exits the process.
DumpFails ==
    /\ ~halted
    /\ mainPc = "dump"
    /\ mainPc' = "fatal"
    /\ halted' = TRUE
    /\ UNCHANGED << benchVars, startVars, flags, spawned, wg, tw, pc, remainingRows, curBatch, submitted >>

\* applyConstraints returns nil: the preparation is over, the benchmark
\* phase is next.
ConstraintsDone ==
    /\ ~halted
    /\ mainPc = "constraints"
    /\ mainPc' = PhaseAfter("constraints")
    /\ UNCHANGED << benchVars, startVars, flags, spawned, wg, tw, pc, remainingRows, curBatch, submitted, halted >>

\* applyConstraints returns an error and main's log.Fatal exits the process.
ConstraintsFail ==
    /\ ~halted
    /\ mainPc = "constraints"
    /\ mainPc' = "fatal"
    /\ halted' = TRUE
    /\ UNCHANGED << benchVars, startVars, flags, spawned, wg, tw, pc, remainingRows, curBatch, submitted >>

Next ==
    \/ NewWriterAndGo
    \/ \E t \in TableNames : InsertBatch(t)
    \/ \E t \in TableNames : InsertDataReturns(t)
    \/ WaitReturns
    \/ DumpDone
    \/ DumpFails
    \/ ConstraintsDone
    \/ ConstraintsFail

Spec == Init /\ [][Next]_vars

\* Table t's goroutine can take a step: it is in insertData's loop, whose
\* test leads to an iteration or to the return.
WriterRunnable(t) == ~halted /\ pc[t] \in {"started", "loop"}

\* The main goroutine can take a step: it is not blocked in wg.Wait().
MainRunnable ==
    /\ ~halted
    /\ \/ mainPc \in {"spawn", "dump", "constraints"}
       \/ mainPc = "wait" /\ wg = 0

\* No goroutine can take a step: the run has gone as far as it goes.
Quiescent == ~MainRunnable /\ \A t \in TableNames : ~WriterRunnable(t)

(***************************************************************************)
(* Reading the submitted rows.                                              *)
(***************************************************************************)
\* The integer a field of decimal digits denotes; -1 for any other field.
RECURSIVE AtoiFrom(_, _, _)
AtoiFrom(f, i, acc) ==
    IF i > Len(f) THEN acc
    ELSE IF ~IsDigit(f[i]) THEN -1
    ELSE AtoiFrom(f, i + 1, 10 * acc + (f[i] - Digit0))

Atoi(f) == IF Len(f) = 0 THEN -1 ELSE AtoiFrom(f, 1, 0)

\* The position (from 1) of the first column of kind c of table t.
ColumnOf(t, c) == CHOOSE i \in 1..Len(tableTypes[t]) : tableTypes[t][i] = c

RECURSIVE Flatten(_)
Flatten(ss) == IF ss = << >> THEN << >> ELSE Head(ss) \o Flatten(Tail(ss))

\* The rows of each db.Exec call of table t, in submission order.
BatchRows(t) == [k \in 1..Len(submitted[t]) |-> submitted[t][k].rows]

\* All rows submitted for table t, in submission order.
RowsOf(t) == Flatten(BatchRows(t))

\* The primary keys of a sequence of rows of table t.
KeysOf(t, rows) == [i \in 1..Len(rows) |-> Atoi(rows[i][ColumnOf(t, "PkeyInt")])]

(***************************************************************************)
(* Properties of data generation.                                          *)
(***************************************************************************)
\* The tables of the selected schema variant.
TableSet == {tables[i] : i \in 1..Len(tables)}

\* Every table pipeline has returned from insertData.
GenerationComplete == \A t \in TableSet : pc[t] = "done"

\* C1: the primary keys a table writer emits over all of its batches, in
\* submission order, are 1, 2, 3, ... without gap or repetition; when the
\* table's pipeline has completed they are exactly 1..N for its row target
\* N; and every key of a batch is smaller than every key of the next batch.
C1_PrimaryKeysGapFree ==
    \A t \in TableNames :
        LET b == BatchRows(t)
            keys == KeysOf(t, Flatten(b))
        IN  /\ \A i \in 1..Len(keys) : keys[i] = i
            /\ pc[t] = "done" => Len(keys) = tableRows[t]
            /\ \A k \in 1..(Len(b) - 1) :
                 \A i \in 1..Len(b[k]) : \A j \in 1..Len(b[k + 1]) :
                    KeysOf(t, b[k])[i] < KeysOf(t, b[k + 1])[j]

\* A table completed in at least three batches.
C1_Witness ==
    \E t \in TableSet :
        /\ pc[t] = "done"
        /\ Len(submitted[t]) >= 3
        /\ Len(RowsOf(t)) = tableRows[t]

\* The row target of the parent that foreign-key column cidx (from 0) of
\* table t references.
ParentRows(t, cidx) ==
    IF BaseTable(t) = Variant /\ cidx = 1 THEN nProducts ELSE nMerchants

\* The foreign-key columns (from 0) of table t.
FkeyColumns(t) == {i \in 0..(Len(tableTypes[t]) - 1) : tableTypes[t][i + 1] = "FkeyInt"}

\* C2: every foreign-key value generated lies in [1, P], P the row target
\* of the referenced parent table, in every reachable state (so under every
\* interleaving of the pipelines).
C2_ForeignKeysInRange ==
    \A t \in TableNames :
        \A cidx \in FkeyColumns(t) :
            LET rows == RowsOf(t)
            IN  \A i \in 1..Len(rows) :
                    /\ Atoi(rows[i][cidx + 1]) >= 1
                    /\ Atoi(rows[i][cidx + 1]) <= ParentRows(t, cidx)

\* A variant table whose rows reach both ends of the merchant range and the
\* upper end of the product range.
C2_Witness ==
    \E t \in TableSet :
        /\ BaseTable(t) = Variant
        /\ nMerchants >= 2
        /\ nProducts >= 2
        /\ \E i \in 1..Len(RowsOf(t)) : Atoi(RowsOf(t)[i][1]) = 1
        /\ \E i \in 1..Len(RowsOf(t)) : Atoi(RowsOf(t)[i][1]) = nMerchants
        /\ \E i \in 1..Len(RowsOf(t)) : Atoi(RowsOf(t)[i][2]) = nProducts

\* The table of the selected variant whose base table is b.
TableOf(b) == CHOOSE t \in TableSet : BaseTable(t) = b

\* C3: once generation has completed for all tables, every product and
\* every store row names the key of a generated merchant row, and every
\* variant row's (v_m_id, v_p_id) is the (p_m_id, p_id) of a generated
\* product row.
C3_ForeignKeyConsistent ==
    GenerationComplete =>
        LET merchants == RowsOf(TableOf(Merchant))
            products == RowsOf(TableOf(Product))
            variants == RowsOf(TableOf(Variant))
            stores == RowsOf(TableOf(Store))
        IN  /\ \A i \in 1..Len(products) :
                 \E m \in 1..Len(merchants) : products[i][1] = merchants[m][1]
            /\ \A i \in 1..Len(stores) :
                 \E m \in 1..Len(merchants) : stores[i][1] = merchants[m][1]
            /\ \A i \in 1..Len(variants) :
                 \E p \in 1..Len(products) :
                    /\ variants[i][1] = products[p][1]
                    /\ variants[i][2] = products[p][2]

\* A writer as a run with seed s creates it.
WriterOfSeed(s) ==
    [pkey |-> 1, rnd |-> NewSource(s), scratch |-> MakeSlice(textLen + 2),
     valuesBuf |-> EmptySlice]

\* The value list of the first n rows of table t when it is generated alone,
\* in one piece, from a writer of seed s: a function of s, n, the column
\* kinds and the row targets.
SequentialValues(t, s, n) == SliceString(genValues(t, WriterOfSeed(s), n).values)

\* The value lists of a sequence of db.Exec calls, joined by commas.
RECURSIVE JoinValues(_)
JoinValues(calls) ==
    IF calls = << >> THEN << >>
    ELSE IF Len(calls) = 1 THEN calls[1].values
    ELSE calls[1].values \o << Comma >> \o JoinValues(Tail(calls))

\* C4: the rows generated for a table are a function of the seed, the
\* table's column kinds and the row targets alone: in every reachable state,
\* whatever the interleaving, the bytes submitted so far are those of the
\* table's sequential generation from the seed, cut after as many rows, and
\* a completed pipeline has submitted the whole table.
C4_DeterministicRows ==
    \A t \in TableSet :
        /\ submitted[t] # << >> =>
             JoinValues(submitted[t]) = SequentialValues(t, seed, Len(RowsOf(t)))
        /\ pc[t] = "done" => Len(RowsOf(t)) = tableRows[t]

\* Two pipelines out of step: one has submitted two batches while an
\* earlier-spawned one has not run yet and a third has completed.
C4_Witness ==
    \E t1, t2, t3 \in TableSet :
        /\ Len(submitted[t1]) >= 2
        /\ pc[t2] = "started" /\ tableRows[t2] > 0
        /\ pc[t3] = "done" /\ tableRows[t3] > 0

\* The number of rows of each batch submitted for table t.
BatchSizes(t) == [k \in 1..Len(submitted[t]) |-> Len(BatchRows(t)[k])]

RECURSIVE SumSeq(_)
SumSeq(ns) == IF ns = << >> THEN 0 ELSE Head(ns) + SumSeq(Tail(ns))

\* C5: every batch holds between 1 and batchSize rows and every batch but
\* the last exactly batchSize; a completed pipeline has submitted
\* ceil(N / batchSize) batches holding N rows in all, the last one the
\* remainder; a table with N = 0 submits nothing.
C5_BatchSizes ==
    \A t \in TableNames :
        LET n == BatchSizes(t)
            N == tableRows[t]
        IN  /\ \A k \in 1..Len(n) : n[k] >= 1 /\ n[k] <= batchSize
            /\ \A k \in 1..(Len(n) - 1) : n[k] = batchSize
            /\ SumSeq(n) <= N
            /\ N = 0 => Len(n) = 0
            /\ pc[t] = "done" =>
                 /\ Len(n) = (N + batchSize - 1) \div batchSize
                 /\ SumSeq(n) = N
                 /\ N > 0 => n[Len(n)] = N - (Len(n) - 1) * batchSize

\* A completed table whose last batch is a remainder smaller than batchSize,
\* after at least one full batch.
C5_Witness ==
    \E t \in TableSet :
        /\ pc[t] = "done"
        /\ Len(submitted[t]) >= 2
        /\ BatchSizes(t)[Len(submitted[t])] < batchSize

\* generateData is past wg.Wait().
WaitPassed == mainPc \in {"dump", "constraints", "maindump", "benchmark", "fatal"}

\* The rows of table t whose db.Exec succeeded.
RECURSIVE InsertedRows(_)
InsertedRows(calls) ==
    IF calls = << >> THEN << >>
    ELSE (IF Head(calls).ok THEN Head(calls).rows ELSE << >>)
            \o InsertedRows(Tail(calls))

\* Table t's pipeline has submitted its full row target.
FullySubmitted(t) ==
    /\ pc[t] = "done"
    /\ remainingRows[t] = 0
    /\ Len(InsertedRows(submitted[t])) = tableRows[t]

\* The db.Exec of some batch returned an error.
SomeBatchFailed == \E t \in TableNames : \E k \in 1..Len(submitted[t]) : ~submitted[t][k].ok

\* generateData is past its wait only when every pipeline of the variant has
\* submitted its full row target.
WaitPassedOnlyWhenSubmitted == WaitPassed => \A t \in TableSet : FullySubmitted(t)

\* C6: generateData passes wg.Wait() only in a state where every table
\* pipeline of the variant has submitted its full row target, and, if no
\* batch fails, it eventually passes it: a run that can go no further
\* without a failed batch is past the wait.
C6_WaitForAllPipelines ==
    /\ WaitPassedOnlyWhenSubmitted
    /\ Quiescent => (SomeBatchFailed \/ WaitPassed)

\* C7: a failed batch insert is the last db.Exec of its table and the only
\* failed one, its value list was submitted once only, the process has
\* exited, and generateData is not past its wait: the dump step, the
\* constraint step and the benchmark phase are not reached.
C7_FailedBatchIsFatal ==
    \A t \in TableNames :
        \A k \in 1..Len(submitted[t]) :
            ~submitted[t][k].ok =>
                /\ k = Len(submitted[t])
                /\ \A j \in 1..Len(submitted[t]) :
                      j # k => submitted[t][j].values # submitted[t][k].values
                /\ \A u \in TableNames : \A j \in 1..Len(submitted[u]) :
                      ~submitted[u][j].ok => (u = t /\ j = k)
                /\ pc[t] = "fatal"
                /\ halted
                /\ ~WaitPassed
                /\ Quiescent

\* The second batch of a table fails while another pipeline has completed
\* and generateData is waiting.
C7_Witness ==
    \E t, u \in TableSet :
        /\ Len(submitted[t]) >= 2
        /\ ~submitted[t][Len(submitted[t])].ok
        /\ pc[u] = "done" /\ tableRows[u] > 0
        /\ mainPc = "wait"

(***************************************************************************)
(* The benchmark phase of main: workers, the reporting loop, termination.  *)
(* A histogram is the bag of the samples it holds; a sample is named by    *)
(* its worker and its rank among that worker's samples.                    *)
(***************************************************************************)
\* cap of the done channel (part_000:340).
DoneCap == 3

\* A header line precedes every 20th tick line (part_000:387).
HeaderEvery == 20

\* The process runs: no log.Fatal, no panic, main has not returned.
Alive == ~halted /\ mainPc # "exited"

\* The signal handler, the ticker and the producers exist (part_000:339-353).
LoopStarted ==
    mainPc \notin {"init", "connect", "drop", "create", "reconnect", "loadfile",
                   "schema", "spawn", "wait", "dump", "constraints", "maindump",
                   "benchmark", "fatal"}

\* The benchmark phase as main reaches it without --load, under any flags.
BenchInit ==
    /\ seed = 42
    /\ nMerchants = 0
    /\ nProducts = 0
    /\ nVariants = 0
    /\ nStores = 0
    /\ schemaVar = Normal
    /\ mainPc = "benchmark"
    /\ spawned = 0
    /\ wg = 0
    /\ tw = [t \in TableNames |-> NoWriter]
    /\ pc = [t \in TableNames |-> "none"]
    /\ remainingRows = [t \in TableNames |-> 0]
    /\ curBatch = [t \in TableNames |-> 0]
    /\ submitted = [t \in TableNames |-> << >>]
    /\ halted = FALSE
    /\ \E c \in 0..MaxWorkers : \E d \in {0, 1} : BenchIdle(c, d)
    /\ InitDDLDone
    /\ NothingToPrepare

benchFlags == << concurrency, duration >>

\* The variables of the workers and of the reporting loop.
workerVars == << workers, latency, mu, recorded, benchWg >>
producerVars == << tick, ticks, done, signals, waiterPc, sleeperPc >>
loopVars == << iLoop, hTick, widx, cumLatency, received, snapshots, tickAccs, out >>
opsVars == << numOps, opsA, ops, lastOps >>

\* One iteration of the spawn loop: newWorker (wg.Add(1)) and go run.
SpawnWorker ==
    /\ Alive
    /\ mainPc = "benchmark"
    /\ widx < concurrency
    /\ widx' = widx + 1
    /\ workers' = [workers EXCEPT ![widx + 1] = "run"]
    /\ benchWg' = benchWg + 1
    /\ UNCHANGED << genVars, startVars, benchFlags, opsVars, latency, mu, recorded, producerVars,
                    iLoop, hTick, cumLatency, received, snapshots, tickAccs,
                    out, mainPc, halted >>

\* The start of the loop with the sleeping goroutine started whatever
\* --duration is.
StartLoop_AlwaysSleeps ==
    /\ Alive
    /\ mainPc = "benchmark"
    /\ widx = concurrency
    /\ waiterPc' = "wait"
    /\ sleeperPc' = "sleep"
    /\ mainPc' = "select"
    /\ UNCHANGED << genVars, startVars, benchFlags, opsVars, workerVars, tick, ticks, done, signals,
                    loopVars, halted >>

\* After the spawn loop: time.Tick, the done channel, signal.Notify, the
\* goroutine of wg.Wait and, when --duration > 0, that of time.Sleep.
StartLoop ==
    /\ Alive
    /\ mainPc = "benchmark"
    /\ widx = concurrency
    /\ waiterPc' = "wait"
    /\ sleeperPc' = IF duration > 0 THEN "sleep" ELSE "none"
    /\ mainPc' = "select"
    /\ UNCHANGED << genVars, startVars, benchFlags, opsVars, workerVars, tick, ticks, done, signals,
                    loopVars, halted >>

\* A worker takes its histogram's lock to record a sample.
WorkerLock(w) ==
    /\ Alive
    /\ workers[w] = "run"
    /\ mu[w] = "free"
    /\ Len(recorded[w]) < MaxSamples
    /\ mu' = [mu EXCEPT ![w] = "worker"]
    /\ workers' = [workers EXCEPT ![w] = "record"]
    /\ UNCHANGED << genVars, startVars, benchFlags, opsVars, latency, recorded, benchWg, producerVars,
                    loopVars, mainPc, halted >>

\* The worker records the sample and releases the lock.
WorkerRecord(w) ==
    /\ Alive
    /\ workers[w] = "record"
    /\ latency' = [latency EXCEPT ![w] = @ (+) SetToBag({<< w, Len(recorded[w]) + 1 >>})]
    /\ recorded' = [recorded EXCEPT ![w] = Append(@, Len(snapshots[w]))]
    /\ mu' = [mu EXCEPT ![w] = "free"]
    /\ workers' = [workers EXCEPT ![w] = "run"]
    /\ numOps' = numOps + 1
    /\ UNCHANGED << genVars, startVars, benchFlags, opsA, ops, lastOps, benchWg, producerVars,
                    loopVars, mainPc, halted >>

\* A worker finishes of its own accord: wg.Done().
WorkerFinishes(w) ==
    /\ Alive
    /\ workers[w] = "run"
    /\ workers' = [workers EXCEPT ![w] = "finished"]
    /\ benchWg' = benchWg - 1
    /\ UNCHANGED << genVars, startVars, benchFlags, opsVars, latency, mu, recorded, producerVars,
                    loopVars, mainPc, halted >>

\* A worker's operation fails: fatal to the process.
WorkerFails(w) ==
    /\ Alive
    /\ workers[w] = "run"
    /\ workers' = [workers EXCEPT ![w] = "fatal"]
    /\ halted' = TRUE
    /\ UNCHANGED << genVars, startVars, benchFlags, opsVars, latency, mu, recorded, benchWg,
                    producerVars, loopVars, mainPc >>

\* The ticker delivers a tick into its one-slot channel, n times at most.
TickFiresWithin(n) ==
    /\ Alive
    /\ LoopStarted
    /\ ~tick
    /\ ticks < n
    /\ tick' = TRUE
    /\ ticks' = ticks + 1
    /\ UNCHANGED << genVars, startVars, benchFlags, opsVars, workerVars, done, signals, waiterPc,
                    sleeperPc, loopVars, mainPc, halted >>

TickFires == TickFiresWithin(MaxTicks)

\* SIGINT or SIGTERM arrives: Notify's send does not block, a signal that
\* finds the channel full is dropped.
SignalArrives ==
    /\ Alive
    /\ LoopStarted
    /\ signals < MaxSignals
    /\ signals' = signals + 1
    /\ done' = IF Len(done) < DoneCap THEN Append(done, "signal") ELSE done
    /\ UNCHANGED << genVars, startVars, benchFlags, opsVars, workerVars, tick, ticks, waiterPc,
                    sleeperPc, loopVars, mainPc, halted >>

\* The waiting goroutine: wg.Wait() returns once the counter is zero, then
\* done <- syscall.Signal(0), which waits while the channel is full.
WaiterSends ==
    /\ Alive
    /\ waiterPc = "wait"
    /\ benchWg = 0
    /\ Len(done) < DoneCap
    /\ done' = Append(done, "workers")
    /\ waiterPc' = "sent"
    /\ UNCHANGED << genVars, startVars, benchFlags, opsVars, workerVars, tick, ticks, signals,
                    sleeperPc, loopVars, mainPc, halted >>

\* The sleeping goroutine: time.Sleep(*duration) returns, then
\* done <- syscall.Signal(0), which waits while the channel is full.
SleeperSends ==
    /\ Alive
    /\ sleeperPc = "sleep"
    /\ Len(done) < DoneCap
    /\ done' = Append(done, "duration")
    /\ sleeperPc' = "sent"
    /\ UNCHANGED << genVars, startVars, benchFlags, opsVars, workerVars, tick, ticks, signals,
                    waiterPc, loopVars, mainPc, halted >>

\* w.latency.Merge(): a new histogram holding the window's samples.
WindowMerge(window) == window

\* w.latency.Rotate(): the window is emptied.
WindowRotate(window) == EmptyBag

\* The tick case's accumulator after a worker's snapshot m (part_000:376-380).
TickFold_Overwrite(acc, m) == [nil |-> FALSE, hist |-> m]

TickFold(acc, m) ==
    IF acc.nil THEN [nil |-> FALSE, hist |-> m]
    ELSE [nil |-> FALSE, hist |-> acc.hist (+) m]

\* Where the done case leaves the loop: return.
AfterSummary_LoopsOn == "select"

AfterSummary == "return"

\* case <-tick: a tick is taken, h is nil, the range over workers begins.
TickCase ==
    /\ Alive
    /\ mainPc = "select"
    /\ tick
    /\ tick' = FALSE
    /\ hTick' = NilHistogram
    /\ widx' = 0
    /\ mainPc' = IF concurrency = 0 THEN "tickReport" ELSE "tickLock"
    /\ UNCHANGED << genVars, startVars, benchFlags, opsVars, workerVars, ticks, done, signals,
                    waiterPc, sleeperPc, iLoop, cumLatency, received, snapshots,
                    tickAccs, out, halted >>

\* w.latency.Lock() in the tick case.
TickLock ==
    /\ Alive
    /\ mainPc = "tickLock"
    /\ mu[widx + 1] = "free"
    /\ mu' = [mu EXCEPT ![widx + 1] = "main"]
    /\ mainPc' = "tickDrain"
    /\ UNCHANGED << genVars, startVars, benchFlags, opsVars, workers, latency, recorded, benchWg,
                    producerVars, loopVars, halted >>

\* The tick case's drain with the window left as it is.
TickDrain_NoRotate ==
    /\ Alive
    /\ mainPc = "tickDrain"
    /\ \E m \in {WindowMerge(latency[widx + 1])} :
          /\ snapshots' = [snapshots EXCEPT ![widx + 1] = Append(@, [final |-> FALSE, hist |-> m])]
          /\ hTick' = TickFold(hTick, m)
    /\ mu' = [mu EXCEPT ![widx + 1] = "free"]
    /\ widx' = widx + 1
    /\ mainPc' = IF widx + 1 = concurrency THEN "tickReport" ELSE "tickLock"
    /\ UNCHANGED << genVars, startVars, benchFlags, opsVars, workers, latency, recorded, benchWg,
                    producerVars, iLoop, cumLatency, received, tickAccs, out,
                    halted >>

\* The rest of the tick case's loop body: Merge, Rotate, Unlock, and the
\* snapshot goes into h.
TickDrain ==
    /\ Alive
    /\ mainPc = "tickDrain"
    /\ \E m \in {WindowMerge(latency[widx + 1])} :
          /\ snapshots' = [snapshots EXCEPT ![widx + 1] = Append(@, [final |-> FALSE, hist |-> m])]
          /\ hTick' = TickFold(hTick, m)
    /\ latency' = [latency EXCEPT ![widx + 1] = WindowRotate(@)]
    /\ mu' = [mu EXCEPT ![widx + 1] = "free"]
    /\ widx' = widx + 1
    /\ mainPc' = IF widx + 1 = concurrency THEN "tickReport" ELSE "tickLock"
    /\ UNCHANGED << genVars, startVars, benchFlags, opsVars, workers, recorded, benchWg, producerVars,
                    iLoop, cumLatency, received, tickAccs, out, halted >>

\* The lines of a tick report with the header on every report.
TickLines_HeaderAlways(n) == << "header", "tick" >>

\* The lines of tick report n: the header on every 20th, the report line.
TickLines(n) == (IF n % HeaderEvery = 0 THEN << "header" >> ELSE << >>) \o << "tick" >>

\* After the range: cumLatency.Merge(h), and the read of numOps begins.
\* Merging a nil h dereferences it: the runtime panics and ends the process.
TickReport ==
    /\ Alive
    /\ mainPc = "tickReport"
    /\ IF hTick.nil
       THEN /\ mainPc' = "panic"
            /\ halted' = TRUE
            /\ UNCHANGED << cumLatency, tickAccs, opsA >>
       ELSE /\ cumLatency' = cumLatency (+) hTick.hist
            /\ tickAccs' = Append(tickAccs, hTick.hist)
            /\ opsA' = numOps
            /\ mainPc' = "tickPrint"
            /\ UNCHANGED halted
    /\ UNCHANGED << genVars, startVars, benchFlags, numOps, ops, lastOps, workerVars,
                    producerVars, iLoop, hTick, widx, received, snapshots, out >>

\* The halves of a 64-bit word.  WordMod stands for 2^32.
WordMod == 2
Hi(n) == n \div WordMod
Lo(n) == n % WordMod

\* ops := numOps is a plain load that races with the workers'
\* atomic.AddUint64.  Where the counter is one machine word the load yields a
\* value the counter held, at the start (a) or at the end (b) of the read;
\* where it is two words the halves are loaded one after the other, in either
\* order, and may belong to different values.
TornReads(a, b) ==
    {a, b, Hi(a) * WordMod + Lo(b), Hi(b) * WordMod + Lo(a)}

\* The read of numOps ends; the header and the report line, i++,
\* lastOps = ops.
TickPrint ==
    /\ Alive
    /\ mainPc = "tickPrint"
    /\ \E v \in TornReads(opsA, numOps) :
          /\ ops' = v
          /\ lastOps' = v
    /\ opsA' = 0
    /\ out' = out \o TickLines(iLoop)
    /\ iLoop' = iLoop + 1
    /\ mainPc' = "select"
    /\ UNCHANGED << genVars, startVars, benchFlags, numOps, workerVars, producerVars, hTick,
                    widx, cumLatency, received, snapshots, tickAccs, halted >>

\* case <-done: an event is taken, the range over workers begins.
DoneCase ==
    /\ Alive
    /\ mainPc = "select"
    /\ done # << >>
    /\ received' = Append(received, Head(done))
    /\ done' = Tail(done)
    /\ widx' = 0
    /\ mainPc' = IF concurrency = 0 THEN "summary" ELSE "doneLock"
    /\ UNCHANGED << genVars, startVars, benchFlags, opsVars, workerVars, tick, ticks, signals,
                    waiterPc, sleeperPc, iLoop, hTick, cumLatency, snapshots,
                    tickAccs, out, halted >>

\* w.latency.Lock() in the done case.
DoneLock ==
    /\ Alive
    /\ mainPc = "doneLock"
    /\ mu[widx + 1] = "free"
    /\ mu' = [mu EXCEPT ![widx + 1] = "main"]
    /\ mainPc' = "doneDrain"
    /\ UNCHANGED << genVars, startVars, benchFlags, opsVars, workers, latency, recorded, benchWg,
                    producerVars, loopVars, halted >>

\* The rest of the done case's loop body: Merge, Rotate, Unlock, and the
\* snapshot goes into cumLatency.
DoneDrain ==
    /\ Alive
    /\ mainPc = "doneDrain"
    /\ \E m \in {WindowMerge(latency[widx + 1])} :
          /\ snapshots' = [snapshots EXCEPT ![widx + 1] = Append(@, [final |-> TRUE, hist |-> m])]
          /\ cumLatency' = cumLatency (+) m
    /\ latency' = [latency EXCEPT ![widx + 1] = WindowRotate(@)]
    /\ mu' = [mu EXCEPT ![widx + 1] = "free"]
    /\ widx' = widx + 1
    /\ mainPc' = IF widx + 1 = concurrency THEN "summary" ELSE "doneLock"
    /\ UNCHANGED << genVars, startVars, benchFlags, opsVars, workers, recorded, benchWg, producerVars,
                    iLoop, hTick, received, tickAccs, out, halted >>

\* atomic.LoadUint64(&numOps), the final summary is printed and the done
\* case returns.
Summary ==
    /\ Alive
    /\ mainPc = "summary"
    /\ ops' = numOps
    /\ out' = Append(out, "summary")
    /\ mainPc' = AfterSummary
    /\ UNCHANGED << genVars, startVars, benchFlags, numOps, opsA, lastOps, workerVars, producerVars, iLoop, hTick,
                    widx, cumLatency, received, snapshots, tickAccs, halted >>

\* main returns: the deferred function prints the ns/op line, the process
\* ends and its goroutines with it.
MainReturns ==
    /\ Alive
    /\ mainPc = "return"
    /\ out' = Append(out, "ns/op")
    /\ mainPc' = "exited"
    /\ UNCHANGED << genVars, startVars, benchFlags, opsVars, workerVars, producerVars, iLoop, hTick,
                    widx, cumLatency, received, snapshots, tickAccs, halted >>

BenchNext ==
    \/ SpawnWorker
    \/ StartLoop
    \/ \E w \in Workers : WorkerLock(w)
    \/ \E w \in Workers : WorkerRecord(w)
    \/ \E w \in Workers : WorkerFinishes(w)
    \/ \E w \in Workers : WorkerFails(w)
    \/ TickFires
    \/ SignalArrives
    \/ WaiterSends
    \/ SleeperSends
    \/ TickCase
    \/ TickLock
    \/ TickDrain
    \/ TickReport
    \/ TickPrint
    \/ DoneCase
    \/ DoneLock
    \/ DoneDrain
    \/ Summary
    \/ MainReturns

Bench == BenchInit /\ [][BenchNext]_vars

(***************************************************************************)
(* Properties of the benchmark phase.                                      *)
(***************************************************************************)
\* The workers --concurrency creates.
ActiveWorkers == 1..concurrency

\* The drains of worker w's histogram that the done case made.
FinalDrains(w) == {j \in 1..Len(snapshots[w]) : snapshots[w][j].final}

\* The final summary is among the lines printed.
SummaryEmitted == \E j \in 1..Len(out) : out[j] = "summary"

\* C8: for every worker histogram and every interleaving of its recorder
\* with the loop's lock/merge/rotate/unlock, a sample recorded after d
\* drains of the histogram is in the snapshot of drain d + 1 once, in no
\* other snapshot, and in the window exactly until that drain: no sample is
\* lost and none is counted twice across successive drains.
C8_EachSampleInOneSnapshot ==
    \A w \in Workers : \A k \in 1..Len(recorded[w]) :
        /\ \A j \in 1..Len(snapshots[w]) :
              CopiesIn(<< w, k >>, snapshots[w][j].hist) =
                  IF j = recorded[w][k] + 1 THEN 1 ELSE 0
        /\ CopiesIn(<< w, k >>, latency[w]) =
              IF Len(snapshots[w]) = recorded[w][k] THEN 1 ELSE 0

\* A worker recorded one sample before its histogram's first drain and one
\* between the first and the second, and the second drain returned only
\* the latter.
C8_Witness ==
    \E w \in Workers :
        /\ recorded[w] = << 0, 1 >>
        /\ Len(snapshots[w]) = 2
        /\ snapshots[w][1].hist = SetToBag({<< w, 1 >>})
        /\ snapshots[w][2].hist = SetToBag({<< w, 2 >>})

\* The sizes of the tick accumulators and of the final snapshots.
TickAccCounts == [j \in 1..Len(tickAccs) |-> BagCardinality(tickAccs[j])]

FinalSnapshotCounts ==
    [w \in ActiveWorkers |-> BagCardinality(snapshots[w][Len(snapshots[w])].hist)]

\* C9: when the final summary is emitted, every worker's histogram has
\* been drained once more after the termination event was received, the
\* cumulative histogram holds each sample recorded before its worker's
\* final drain exactly once, and its count is the sum of the counts of the
\* tick accumulators and of the final-drain snapshots.
C9_SummaryCoversAllSamples ==
    SummaryEmitted =>
        /\ received # << >>
        /\ \A w \in ActiveWorkers : FinalDrains(w) = {Len(snapshots[w])}
        /\ \A w \in ActiveWorkers : \A k \in 1..Len(recorded[w]) :
              recorded[w][k] < Len(snapshots[w]) =>
                  CopiesIn(<< w, k >>, cumLatency) = 1
        /\ BagCardinality(cumLatency) =
              SumSeq(TickAccCounts) + SumSeq(FinalSnapshotCounts)

\* The summary was emitted after a tick report whose accumulator merged
\* samples of two workers and a final drain that returned a later sample.
C9_Witness ==
    /\ SummaryEmitted
    /\ concurrency = 2
    /\ \E j \in 1..Len(tickAccs) : BagCardinality(tickAccs[j]) = 2
    /\ \E w \in ActiveWorkers :
          BagCardinality(snapshots[w][Len(snapshots[w])].hist) = 1
    /\ BagCardinality(cumLatency) = 3

\* The state of the harness (spec.md, Benchmark Harness).
Phase ==
    CASE mainPc = "benchmark" -> "Idle"
      [] mainPc \in {"select", "tickLock", "tickDrain", "tickReport", "tickPrint"} -> "Running"
      [] mainPc \in {"doneLock", "doneDrain", "summary"} -> "Draining"
      [] mainPc \in {"return", "exited"} -> "Terminated"
      [] OTHER -> "Failed"

\* The positions in out of the lines equal to l.
LinesOf(l) == {j \in 1..Len(out) : out[j] = l}

\* What holds in each state of the harness: nothing is received while
\* Running; one event has been received from Draining on; Terminated has
\* one final drain per worker, one summary and no tick line after it.
C10_State ==
    /\ Phase \in {"Idle", "Running"} =>
          received = << >> /\ LinesOf("summary") = {} /\
          \A w \in Workers : FinalDrains(w) = {}
    /\ Phase = "Draining" =>
          Len(received) = 1 /\ LinesOf("summary") = {} /\
          \A w \in Workers : Cardinality(FinalDrains(w)) = IF w <= widx THEN 1 ELSE 0
    /\ Phase = "Terminated" =>
          /\ Len(received) = 1
          /\ Cardinality(LinesOf("summary")) = 1
          /\ \A w \in Workers :
                Cardinality(FinalDrains(w)) = IF w \in ActiveWorkers THEN 1 ELSE 0
          /\ \A j \in LinesOf("tick") : \A k \in LinesOf("summary") : j < k

\* What holds of each step: the states follow one another in order, Running
\* is left for Draining exactly by receiving an event, and from Draining on
\* an event that arrives changes nothing of the loop.
C10_Step ==
    /\ Phase' # Phase =>
          << Phase, Phase' >> \in
              {<< "Idle", "Running" >>, << "Running", "Draining" >>,
               << "Draining", "Terminated" >>, << "Running", "Failed" >>}
    /\ received' # received <=> (Phase = "Running" /\ Phase' = "Draining")
    /\ (Phase \in {"Draining", "Terminated"} /\ Len(done') > Len(done)) =>
          UNCHANGED << mainPc, loopVars, workerVars >>

\* C10: the harness moves Running -> Draining -> Terminated on the first
\* termination event the loop receives, whichever producer sent it; it then
\* makes exactly one final drain, emits exactly one final summary and no
\* tick line afterwards, and later events change nothing.
C10_TerminatesOnFirstEvent == [] C10_State /\ [][C10_Step]_vars

\* The process ended after a tick report and the summary, on the signal's
\* event, with the workers' event still in the channel.
C10_Witness ==
    /\ mainPc = "exited"
    /\ received = << "signal" >>
    /\ done = << "workers" >>
    /\ out = << "header", "tick", "summary", "ns/op" >>

(***************************************************************************)
(* The benchmark phase under the scheduling the Go runtime gives: a        *)
(* goroutine that can run does run (the loop's steps, a recorder holding   *)
(* a lock, a producer whose send has room), and select, which picks among  *)
(* its ready cases at random, does not pass over the done case forever.    *)
(***************************************************************************)
MainLoopStep ==
    \/ SpawnWorker
    \/ StartLoop
    \/ TickCase
    \/ TickLock
    \/ TickDrain
    \/ TickReport
    \/ TickPrint
    \/ DoneLock
    \/ DoneDrain
    \/ Summary
    \/ MainReturns

\* The runs whose progress is checked have at most MaxFairWorkers workers.
MaxFairWorkers == 1

FairBenchInit ==
    /\ BenchInit
    /\ concurrency <= MaxFairWorkers

FewWorkers == FairBenchInit /\ [][BenchNext]_vars

FairBench ==
    /\ FewWorkers
    /\ WF_vars(MainLoopStep)
    /\ SF_vars(DoneCase)
    /\ \A w \in Workers : WF_vars(WorkerRecord(w))
    /\ WF_vars(WaiterSends)
    /\ WF_vars(SleeperSends)

\* A termination producer has fired: a signal arrived, the waiting or the
\* sleeping goroutine has sent.
ProducerFired == signals > 0 \/ waiterPc = "sent" \/ sleeperPc = "sent"

\* A producer's send finds the channel full.
ProducerBlocked ==
    /\ Len(done) = DoneCap
    /\ \/ waiterPc = "wait" /\ benchWg = 0
       \/ sleeperPc = "sleep"

\* A fatal error: a worker's operation failed and log.Fatal ended the run.
FatalError == \E w \in Workers : workers[w] = "fatal"

\* An event leaves the done channel only when the loop takes it.
EventsStayPending ==
    done' # done =>
        \/ \E p \in {"signal", "workers", "duration"} : done' = Append(done, p)
        \/ done' = Tail(done) /\ received' = Append(received, Head(done))

\* C11: graceful termination always produces a final summary: in every run
\* with no fatal error, once a termination producer has fired the event
\* stays pending until the loop takes it, no producer stays blocked on the
\* full channel forever, and the final summary is eventually emitted.
C11_GracefulTerminationSummarises ==
    /\ [][EventsStayPending]_vars
    /\ ProducerBlocked ~> (~ProducerBlocked \/ ~Alive)
    /\ ProducerFired ~> (SummaryEmitted \/ FatalError)

\* How many of the events sent so far (pending or received) the sleeping
\* goroutine sent.
DurationEvents ==
    Cardinality({j \in 1..Len(done) : done[j] = "duration"}) +
    Cardinality({j \in 1..Len(received) : received[j] = "duration"})

\* With --duration=0 there is no sleeping goroutine and no event of it, and
\* Running is left only once a signal has arrived or all workers have
\* finished; with --duration > 0 the sleeping goroutine exists from the
\* start of the loop and sends one event, never a second.
C12_State ==
    /\ duration = 0 =>
          /\ sleeperPc = "none"
          /\ DurationEvents = 0
          /\ Phase \notin {"Idle", "Running"} => (signals > 0 \/ benchWg = 0)
    /\ duration > 0 =>
          /\ LoopStarted => sleeperPc \in {"sleep", "sent"}
          /\ DurationEvents = IF sleeperPc = "sent" THEN 1 ELSE 0

\* While the harness is Running, a tick that is due gets its report line,
\* unless the loop takes a termination event or the process ends first.
TickGetsItsLine ==
    \A n \in 0..MaxTicks :
        (Phase = "Running" /\ tick /\ Cardinality(LinesOf("tick")) = n)
            ~> (Cardinality(LinesOf("tick")) > n \/ Phase # "Running" \/ ~Alive)

IncrementsCompleted ==
    LET RECURSIVE Sum(_)
        Sum(n) == IF n = 0 THEN 0 ELSE Len(recorded[n]) + Sum(n - 1)
    IN Sum(MaxWorkers)

\* No update of the counter is lost.
NoLostUpdate == numOps = IncrementsCompleted

\* A read of the tick case ends: its value is one the counter held during the
\* read (the counter goes through opsA..numOps), it is not below the value of
\* the tick before, and so the delta ops - lastOps does not underflow.
TickReadConsistent ==
    (mainPc = "tickPrint" /\ mainPc' = "select") =>
        /\ ops' \in opsA..numOps
        /\ ops' >= lastOps
        /\ lastOps' = ops'

\* The read of the final summary yields the counter's value.
SummaryReadConsistent ==
    (mainPc = "summary" /\ mainPc' # "summary") => ops' = numOps

\* C13: the operation counter loses no update, every value the reporting
\* loop reads from it (on a tick and at the final summary) is the number of
\* increments completed at some instant of the read, and the values read on
\* successive ticks never decrease, so that the deltas ops - lastOps never
\* underflow and add up to the value read last.
C13_CounterReadConsistently ==
    /\ [] NoLostUpdate
    /\ [][TickReadConsistent /\ SummaryReadConsistent]_vars


(***************************************************************************)
(* The tick case's drains.                                                 *)
(***************************************************************************)
\* The locks the main goroutine holds.
HeldByMain == {w \in Workers : mu[w] = "main"}

\* The tick case is running.
InTickCase == mainPc \in {"tickLock", "tickDrain", "tickReport", "tickPrint"}

\* The tick reports whose accumulator was merged into cumLatency.
TicksMerged == Len(tickAccs)

\* How often worker w was drained by tick cases.
TickDrainsOf(w) == Cardinality({j \in 1..Len(snapshots[w]) : ~snapshots[w][j].final})

\* The snapshots tick report j drained from the first n workers, together.
RECURSIVE DrainedOnTick(_, _)
DrainedOnTick(j, n) ==
    IF n = 0 THEN EmptyBag
    ELSE DrainedOnTick(j, n - 1) (+) snapshots[n][j].hist

\* The main goroutine holds one lock at most: the lock of the worker it is
\* draining, and none when it takes the next one, merges or prints.
OneLockAtATime ==
    /\ Cardinality(HeldByMain) <= 1
    /\ mainPc \in {"tickDrain", "doneDrain"} => HeldByMain = {widx + 1}
    /\ mainPc \in {"select", "tickLock", "tickReport", "tickPrint"} => HeldByMain = {}

\* While a tick case runs the workers 1..widx have been drained by it, once
\* each, and the others not yet; between tick cases each worker has been
\* drained once per tick report.
DrainedOnceInOrder ==
    \A w \in ActiveWorkers :
        TickDrainsOf(w) =
            IF mainPc \in {"tickLock", "tickDrain", "tickReport"} /\ w <= widx
            THEN TicksMerged + 1
            ELSE TicksMerged

\* The accumulator of a running tick case holds what this tick case drained,
\* and each merged accumulator held what its tick case drained.
AccumulatorIsThisTick ==
    /\ mainPc \in {"tickLock", "tickDrain", "tickReport"} =>
          hTick.hist = DrainedOnTick(TicksMerged + 1, widx)
    /\ \A j \in 1..TicksMerged : tickAccs[j] = DrainedOnTick(j, concurrency)

\* A tick case that has drained the workers merges its accumulator into
\* cumLatency, and cumLatency changes at no other step of a tick case.
MergedOnce ==
    /\ (mainPc = "tickReport" /\ mainPc' # "tickReport") =>
          /\ ~hTick.nil
          /\ cumLatency' = cumLatency (+) hTick.hist
          /\ mainPc' = "tickPrint"
    /\ (InTickCase /\ mainPc # "tickReport") => cumLatency' = cumLatency

\* C14: on every tick the reporting loop drains each worker once, in order,
\* holding one worker's lock at most and none when it takes the next or
\* prints; the accumulator it reports holds the samples drained on this tick
\* and no others, and it is merged once into the cumulative histogram.
C14_TickDrainsEachWorkerOnce ==
    /\ [] (OneLockAtATime /\ DrainedOnceInOrder /\ AccumulatorIsThisTick)
    /\ [][MergedOnce]_vars

\* The same without the merge of a tick whose accumulator was never set.
C14_ExceptUnsetAccumulator ==
    /\ [] (OneLockAtATime /\ DrainedOnceInOrder /\ AccumulatorIsThisTick)
    /\ [][hTick.nil \/ MergedOnce]_vars


(***************************************************************************)
(* A long run of the reporting loop: one worker that is waiting for the    *)
(* database, no --duration, MaxReportLines ticks and then a signal.        *)
(***************************************************************************)
MaxReportLines == 41

TickingInit ==
    /\ BenchInit
    /\ concurrency = 1
    /\ duration = 0

TickingNext ==
    \/ SpawnWorker
    \/ StartLoop
    \/ TickFiresWithin(MaxReportLines)
    \/ SignalArrives
    \/ TickCase
    \/ TickLock
    \/ TickDrain
    \/ TickReport
    \/ TickPrint
    \/ DoneCase
    \/ DoneLock
    \/ DoneDrain
    \/ Summary
    \/ MainReturns

Ticking == TickingInit /\ [][TickingNext]_vars

\* The tick reports printed before line j.
ReportsBefore(j) == Cardinality({k \in 1..(j - 1) : out[k] = "tick"})

\* C16: the column header is printed immediately before the tick reports
\* number 0, 20, 40, ... (counted from 0) and before no other tick report,
\* and every header line is followed by its tick report.
C16_HeaderEveryTwentieth ==
    /\ \A j \in LinesOf("tick") :
          (j > 1 /\ out[j - 1] = "header") <=> (ReportsBefore(j) % HeaderEvery = 0)
    /\ \A j \in LinesOf("header") : j < Len(out) /\ out[j + 1] = "tick"

\* Forty-one tick reports were printed, the last one with the third header.
C16_Witness ==
    /\ Cardinality(LinesOf("tick")) = 41
    /\ Cardinality(LinesOf("header")) = 3
    /\ out[Len(out)] = "tick"
    /\ out[Len(out) - 1] = "header"


(***************************************************************************)
(* initDDL (ddls.go:157-188), one loop iteration at a time.  A range over  *)
(* a map produces the keys in an order that is not specified; a key that   *)
(* is created while the range runs is produced later on or skipped.        *)
(***************************************************************************)
\* The values of the row-count flags initDDL is run with.
DDLRowTargets == {<< 1, 2, 3, 4 >>, << 2, 1, 0, 1 >>}

\* m[k] = v
MapSet(m, k, v) == [x \in DOMAIN m \cup {k} |-> IF x = k THEN v ELSE m[x]]

\* The keys the running range over m can produce next.
RangeCanProduce(m) == DOMAIN m \ ranged.visited

\* The running range over m can end: what it has not produced was created
\* while it ran.
RangeCanEnd(m) == RangeCanProduce(m) \subseteq ranged.fresh

\* init() calls initDDL with the flags parsed.
InitDDLInit ==
    /\ seed = 42
    /\ \E rt \in DDLRowTargets :
          /\ nMerchants = rt[1]
          /\ nProducts = rt[2]
          /\ nVariants = rt[3]
          /\ nStores = rt[4]
    /\ schemaVar \in {Normal, Interleaved}
    /\ mainPc = "init"
    /\ spawned = 0
    /\ wg = 0
    /\ tw = [t \in TableNames |-> NoWriter]
    /\ pc = [t \in TableNames |-> "none"]
    /\ remainingRows = [t \in TableNames |-> 0]
    /\ curBatch = [t \in TableNames |-> 0]
    /\ submitted = [t \in TableNames |-> << >>]
    /\ halted = FALSE
    /\ BenchIdle(1, 0)
    /\ pkg = PkgLiteral
    /\ ddlPc = "toInterleave"
    /\ ranged = NoRange
    /\ drop = FALSE
    /\ load = FALSE
    /\ loadfile = FALSE
    /\ dumpfile = FALSE
    /\ dbms = "cockroach"
    /\ pool = [maxOpenConns |-> 0, maxIdleConns |-> 0, setBy |-> "sql.Open"]
    /\ ddlIdx = 0

initDDLUnchanged == << genVars, benchVars, prepVars, mainPc, halted >>

\* for _, info := range toInterleave: the slice's elements in order.
InterleaveDDL ==
    /\ ddlPc = "toInterleave"
    /\ LET k == Cardinality(ranged.visited) + 1
           info == toInterleave[k]
       IN  /\ pkg' = [pkg EXCEPT !.ddlStmts =
                         MapSet(@, InterleaveNameOf(info.name),
                                SprintfInterleave(ddlStmts[info.name], info.interleaveStmt))]
           /\ IF k = Len(toInterleave)
              THEN /\ ddlPc' = "tableTypes"
                   /\ ranged' = NoRange
              ELSE /\ ranged' = [ranged EXCEPT !.visited = @ \cup {info.name}]
                   /\ UNCHANGED ddlPc
    /\ UNCHANGED initDDLUnchanged

\* An iteration of one of the three loops that copy the entry of name to
\* the entry of interleaveName[name]: over tableTypes, insertStmts, tableRows.
CopyToInterleaved ==
    /\ ddlPc \in {"tableTypes", "insertStmts", "tableRows"}
    /\ \E name \in RangeCanProduce(pkg[ddlPc]) :
          /\ pkg' = [pkg EXCEPT ![ddlPc] = MapSet(@, InterleaveNameOf(name), @[name])]
          /\ ranged' = [visited |-> ranged.visited \cup {name},
                        fresh |-> ranged.fresh \cup
                                     ({InterleaveNameOf(name)} \ DOMAIN pkg[ddlPc])]
    /\ UNCHANGED << initDDLUnchanged, ddlPc >>

\* The range over tableTypes ends.
TypesCopied ==
    /\ ddlPc = "tableTypes"
    /\ RangeCanEnd(tableTypes)
    /\ ddlPc' = "insertStmts"
    /\ ranged' = NoRange
    /\ UNCHANGED << initDDLUnchanged, pkg >>

\* The range over insertStmts ends; the row-count flags are stored.
InsertsCopied ==
    /\ ddlPc = "insertStmts"
    /\ RangeCanEnd(insertStmts)
    /\ pkg' = [pkg EXCEPT !.tableRows =
                  (Merchant :> nMerchants) @@ (Product :> nProducts)
                      @@ (Variant :> nVariants) @@ (Store :> nStores) @@ @]
    /\ ddlPc' = "tableRows"
    /\ ranged' = NoRange
    /\ UNCHANGED initDDLUnchanged

\* The range over tableRows ends.
RowsCopied ==
    /\ ddlPc = "tableRows"
    /\ RangeCanEnd(tableRows)
    /\ ddlPc' = "ddlStmts"
    /\ ranged' = NoRange
    /\ UNCHANGED << initDDLUnchanged, pkg >>

\* An iteration of the last loop: ddlStmts[name] = fmt.Sprintf("%s;", stmt).
AppendSemicolon ==
    /\ ddlPc = "ddlStmts"
    /\ \E name \in RangeCanProduce(ddlStmts) :
          /\ pkg' = [pkg EXCEPT !.ddlStmts[name] = SprintfSemicolon(@)]
          /\ ranged' = [ranged EXCEPT !.visited = @ \cup {name}]
    /\ UNCHANGED << initDDLUnchanged, ddlPc >>

\* The last range ends and initDDL returns.
InitDDLReturns ==
    /\ ddlPc = "ddlStmts"
    /\ RangeCanEnd(ddlStmts)
    /\ ddlPc' = "done"
    /\ ranged' = NoRange
    /\ UNCHANGED << initDDLUnchanged, pkg >>

InitDDLNext ==
    \/ InterleaveDDL
    \/ CopyToInterleaved
    \/ TypesCopied
    \/ InsertsCopied
    \/ RowsCopied
    \/ AppendSemicolon
    \/ InitDDLReturns

InitDDL == InitDDLInit /\ [][InitDDLNext]_vars

\* The semicolons at the end of a statement.
RECURSIVE TrailingSemicolons(_)
TrailingSemicolons(stmt) ==
    IF stmt = << >> \/ stmt[Len(stmt)] # ";" THEN 0
    ELSE 1 + TrailingSemicolons(SubSeq(stmt, 1, Len(stmt) - 1))

\* C19: after initDDL, whatever the order in which the ranges produced the
\* keys of the maps they were writing, each interleaved table has the row
\* target, the column kinds and the insert statement of its base table, its
\* DDL is the base DDL followed by its interleave clause, every DDL
\* statement ends with one semicolon, the entries of the four base tables
\* are their literals but for that semicolon, and the entries of the seven
\* tables are those the data generation starts from.
C19_InterleavedCopiesOfBase ==
    ddlPc = "done" =>
        /\ \A b \in DOMAIN interleaveName :
              /\ tableRows[interleaveName[b]] = tableRows[b]
              /\ tableTypes[interleaveName[b]] = tableTypes[b]
              /\ insertStmts[interleaveName[b]] = insertStmts[b]
              /\ ddlStmts[interleaveName[b]] =
                    ddlStmtsLiteral[b] \o << " ", InterleaveStmtOf(b), ";" >>
        /\ \A name \in DOMAIN ddlStmts : TrailingSemicolons(ddlStmts[name]) = 1
        /\ \A b \in DOMAIN tableTypesLiteral :
              /\ ddlStmts[b] = ddlStmtsLiteral[b] \o << ";" >>
              /\ tableTypes[b] = tableTypesLiteral[b]
              /\ insertStmts[b] = insertStmtsLiteral[b]
        /\ tableRows[Merchant] = nMerchants
        /\ tableRows[Product] = nProducts
        /\ tableRows[Variant] = nVariants
        /\ tableRows[Store] = nStores
        /\ \A t \in TableNames :
              /\ ddlStmts[t] = PkgAfterInitDDL.ddlStmts[t]
              /\ tableTypes[t] = PkgAfterInitDDL.tableTypes[t]
              /\ insertStmts[t] = PkgAfterInitDDL.insertStmts[t]
              /\ tableRows[t] = PkgAfterInitDDL.tableRows[t]

\* initDDL has returned after a range over tableTypes that produced an entry
\* it had created itself: the entry of the empty name holds the column kinds
\* of an interleaved table.
C19_Witness ==
    /\ ddlPc = "done"
    /\ nVariants = 3
    /\ NoName \in DOMAIN tableTypes
    /\ tableTypes[NoName] = tableTypesLiteral[Variant]
    /\ tableRows[NoName] = 3


(***************************************************************************)
(* Data generation from a table descriptor with a column kind that         *)
(* genValues does not know.                                                *)
(***************************************************************************)
ColumnKinds == {"Text", "Int", "Dec", "PkeyInt", "FkeyInt"}

\* tableTypes with column i of base table b (and of its interleaved table)
\* of a kind outside ColumnKinds.
UnknownKindAt(b, i) ==
    [t \in TableNames |->
        IF BaseTable(t) = b
        THEN [tableTypesLiteral[b] EXCEPT ![i] = "Unknown"]
        ELSE tableTypesLiteral[BaseTable(t)]]

FaultyInit ==
    /\ Start
    /\ seed = 42
    /\ \E b \in DOMAIN tableTypesLiteral : \E i \in 1..Len(tableTypesLiteral[b]) :
          pkg = [PkgAfterInitDDL EXCEPT !.tableTypes = UnknownKindAt(b, i)]
    /\ ddlPc = "done"
    /\ ranged = NoRange
    /\ Loading

Faulty == FaultyInit /\ [][Next]_vars

\* The tables of the run whose descriptor has a column of an unknown kind.
FaultyTables ==
    {t \in TableNames :
        /\ \E j \in 1..Len(tables) : tables[j] = t
        /\ \E i \in 1..Len(tableTypes[t]) : tableTypes[t][i] \notin ColumnKinds}

C17_LateOrNoFailure ==
    /\ FaultyTables # {}
    /\ \E u \in TableNames : submitted[u] # << >>
    /\ mainPc = "maindump"


(***************************************************************************)
(* main from its first statement to the start of the reporting loop        *)
(* (part_000:237-346).                                                     *)
(***************************************************************************)
\* The values of the row-count flags main is run with.
MainRowTargets == {<< 1, 1, 1, 1 >>, << 2, 1, 0, 1 >>}

MainInit ==
    /\ seed = 42
    /\ \E rt \in MainRowTargets :
          /\ nMerchants = rt[1]
          /\ nProducts = rt[2]
          /\ nVariants = rt[3]
          /\ nStores = rt[4]
    /\ schemaVar \in {Normal, Interleaved}
    /\ mainPc = "connect"
    /\ spawned = 0
    /\ wg = 0
    /\ tw = [t \in TableNames |-> NoWriter]
    /\ pc = [t \in TableNames |-> "none"]
    /\ remainingRows = [t \in TableNames |-> 0]
    /\ curBatch = [t \in TableNames |-> 0]
    /\ submitted = [t \in TableNames |-> << >>]
    /\ halted = FALSE
    /\ \E c \in 0..MaxWorkers : BenchIdle(c, 0)
    /\ InitDDLDone
    /\ drop \in BOOLEAN
    /\ load \in BOOLEAN
    /\ loadfile \in BOOLEAN
    /\ dumpfile \in BOOLEAN
    /\ dbms \in {"cockroach", "postgres"}
    /\ dbms = "postgres" => schemaVar = Normal
    /\ pool = [maxOpenConns |-> 0, maxIdleConns |-> 0, setBy |-> "sql.Open"]
    /\ ddlIdx = 0

\* log.Fatal in main's preparation.
PrepFatal ==
    /\ mainPc' = "fatal"
    /\ halted' = TRUE

\* connectDB, when main starts and again for postgres after createDB.
ConnectDB ==
    /\ ~halted
    /\ mainPc \in {"connect", "reconnect"}
    /\ pool' = PoolOfConnectDB
    /\ mainPc' = PhaseAfter(mainPc)
    /\ UNCHANGED << genVars, benchVars, pkg, ddlPc, ranged, drop, load, loadfile,
                    dumpfile, dbms, ddlIdx, halted >>

\* dropDB: the statement succeeds, or log.Fatalf.
DropDB ==
    /\ ~halted
    /\ mainPc = "drop"
    /\ \E ok \in BOOLEAN :
          IF ok THEN mainPc' = PhaseAfter("drop") /\ UNCHANGED halted ELSE PrepFatal
    /\ UNCHANGED << genVars, benchVars, startVars >>

\* createDB: the statement succeeds, or log.Fatalf.
CreateDB ==
    /\ ~halted
    /\ mainPc = "create"
    /\ \E ok \in BOOLEAN :
          IF ok THEN mainPc' = PhaseAfter("create") /\ UNCHANGED halted ELSE PrepFatal
    /\ UNCHANGED << genVars, benchVars, startVars >>

\* The load from --load-file: the command succeeds, or log.Fatal.
LoadFile ==
    /\ ~halted
    /\ mainPc = "loadfile"
    /\ \E ok \in BOOLEAN :
          IF ok THEN mainPc' = PhaseAfter("loadfile") /\ UNCHANGED halted ELSE PrepFatal
    /\ UNCHANGED << genVars, benchVars, startVars >>

\* One iteration of loadSchema's loop: db.Exec(ddlStmts[stmtName]); an
\* error is returned to main, whose log.Fatal exits.  After the last
\* statement main calls generateData.
LoadSchema ==
    /\ ~halted
    /\ mainPc = "schema"
    /\ \E ok \in BOOLEAN :
          IF ok
          THEN /\ ddlIdx' = ddlIdx + 1
               /\ mainPc' = IF ddlIdx + 1 = Len(tables) THEN "spawn" ELSE "schema"
               /\ UNCHANGED halted
          ELSE PrepFatal /\ UNCHANGED ddlIdx
    /\ UNCHANGED << genVars, benchVars, pkg, ddlPc, ranged, drop, load, loadfile,
                    dumpfile, dbms, pool >>

\* main's dump to --dump-file: it succeeds, or log.Fatal.
MainDump ==
    /\ ~halted
    /\ mainPc = "maindump"
    /\ \E ok \in BOOLEAN :
          IF ok THEN mainPc' = PhaseAfter("maindump") /\ UNCHANGED halted ELSE PrepFatal
    /\ UNCHANGED << genVars, benchVars, startVars >>

MainNext ==
    \/ ConnectDB
    \/ DropDB
    \/ CreateDB
    \/ LoadFile
    \/ LoadSchema
    \/ Next
    \/ MainDump
    \/ SpawnWorker
    \/ StartLoop

Main == MainInit /\ [][MainNext]_vars

\* The place of main's steps in the order drop, create, (load from file |
\* create schema, generate data, apply constraints), dump, spawn workers.
PrepRank(p) ==
    CASE p = "connect" -> 0
      [] p = "drop" -> 1
      [] p \in {"create", "reconnect"} -> 2
      [] p \in {"loadfile", "schema"} -> 3
      [] p \in {"spawn", "wait"} -> 4
      [] p = "constraints" -> 5
      [] p \in {"dump", "maindump"} -> 6
      [] OTHER -> 7

\* main never goes back in that order.
PhasesInOrder == (~halted' /\ mainPc' # mainPc) => PrepRank(mainPc') >= PrepRank(mainPc)

\* The tables whose pipeline is running.
PipelinesRunning == {t \in TableNames : pc[t] \in {"started", "loop"}}

\* The workers that were spawned.
WorkersSpawned == {w \in Workers : workers[w] # "none"}

\* No insert before the schema is there, no worker while a pipeline runs or
\* before the generation that --load asks for is over, and the workers are
\* the first concurrency ones.
PreparedBeforeBenchmark ==
    /\ (\E u \in TableNames : submitted[u] # << >>) => ddlIdx = Len(tables)
    /\ WorkersSpawned # {} =>
          /\ PipelinesRunning = {}
          /\ wg = 0
          /\ (load /\ ~loadfile) =>
                /\ ddlIdx = Len(tables)
                /\ \A j \in 1..Len(tables) : pc[tables[j]] = "done"
    /\ WorkersSpawned = 1..widx
    /\ widx <= concurrency
    /\ LoopStarted => WorkersSpawned = 1..concurrency /\ benchWg = concurrency

\* A worker is spawned once.
SpawnedOnce ==
    \A w \in Workers : workers'[w] # workers[w] => (workers[w] = "none" /\ w = widx + 1)

\* C15: the benchmark phase starts after the preparation that was asked for,
\* whose phases run in the order drop, create, (load from file | create
\* schema, generate data, apply constraints), dump, spawn workers; no insert
\* is issued before all DDL statements succeeded, no worker is spawned while
\* a table pipeline runs, and concurrency workers are spawned, once each.
C15_PreparationInOrder ==
    /\ [] PreparedBeforeBenchmark
    /\ [][PhasesInOrder /\ SpawnedOnce]_vars

\* The same without the order of the phases.
C15_ExceptPhaseOrder ==
    /\ [] PreparedBeforeBenchmark
    /\ [][SpawnedOnce]_vars


(***************************************************************************)
(* The connection pool.                                                    *)
(***************************************************************************)
\* While the table pipelines run the limit is at least the number of tables
\* plus one; each pipeline has one statement in flight at most, so the
\* statements in flight stay below the limit.
PoolCoversPipelines ==
    mainPc \in {"spawn", "wait"} =>
        /\ pool.maxOpenConns >= Len(tables) + 1
        /\ Cardinality(PipelinesRunning) < pool.maxOpenConns

\* While workers run the limit is one that a step of the benchmark phase
\* set: not the one connectDB derived from the number of tables.
PoolSizedForBenchmark ==
    WorkersSpawned # {} => pool.setBy \notin {"sql.Open", "connectDB"}

\* C18: during data generation the pool's limit is at least the number of
\* tables of the variant plus one, so the statements the table pipelines
\* have in flight never exceed it and no pipeline waits for a connection;
\* and the limit in effect while workers run was set by a sizing step of
\* the benchmark phase, independently of the number of tables.
C18_PoolSizedPerPhase == PoolCoversPipelines /\ PoolSizedForBenchmark


(***************************************************************************)
(* The writer's buffers.  The rows a table's random stream yields are      *)
(* computed here as plain values, with no buffer, and compared with what   *)
(* was submitted.                                                          *)
(***************************************************************************)
\* The characters of a text value drawn from rnd: [chars, rnd].
RECURSIVE DrawnChars(_, _)
DrawnChars(rnd, i) ==
    IF i = 0 THEN [chars |-> << >>, rnd |-> rnd]
    ELSE LET r == Intn(rnd, Len(textChars))
             rest == DrawnChars(r.rnd, i - 1)
         IN  [chars |-> << textChars[r.v + 1] >> \o rest.chars, rnd |-> rest.rnd]

\* The value of column cidx (from 0) of table t drawn in state d = [row,
\* pkey, rnd], added to d's row.
DrawnColumn(t, d, cidx) ==
    LET c == tableTypes[t][cidx + 1]
    IN  CASE c = "PkeyInt" ->
                [row |-> Append(d.row, Itoa(d.pkey)), pkey |-> d.pkey + 1, rnd |-> d.rnd]
          [] c = "FkeyInt" ->
                LET r == randFkeyInt(t, cidx, d.rnd)
                IN  [row |-> Append(d.row, r.temp), pkey |-> d.pkey, rnd |-> r.rnd]
          [] c = "Int" ->
                LET r == randInt(d.rnd)
                IN  [row |-> Append(d.row, r.temp), pkey |-> d.pkey, rnd |-> r.rnd]
          [] c = "Text" ->
                LET r == DrawnChars(d.rnd, textLen)
                IN  [row |-> Append(d.row, << Quote >> \o r.chars \o << Quote >>),
                     pkey |-> d.pkey, rnd |-> r.rnd]
          [] c = "Dec" ->
                LET r == randDec(d.rnd)
                IN  [row |-> Append(d.row, r.temp), pkey |-> d.pkey, rnd |-> r.rnd]

RECURSIVE DrawnColumns(_, _, _)
DrawnColumns(t, d, cidx) ==
    IF cidx >= Len(tableTypes[t]) THEN d
    ELSE DrawnColumns(t, DrawnColumn(t, d, cidx), cidx + 1)

\* The first n rows of table t: [rows, pkey, rnd].
RECURSIVE DrawnRows(_, _)
DrawnRows(t, n) ==
    IF n = 0 THEN [rows |-> << >>, pkey |-> 1, rnd |-> NewSource(seed)]
    ELSE LET before == DrawnRows(t, n - 1)
             d == DrawnColumns(t, [row |-> << >>, pkey |-> before.pkey,
                                   rnd |-> before.rnd], 0)
         IN  [rows |-> Append(before.rows, d.row), pkey |-> d.pkey, rnd |-> d.rnd]

\* The byte strings of ss with sep between them.
RECURSIVE JoinBytes(_, _)
JoinBytes(ss, sep) ==
    IF ss = << >> THEN << >>
    ELSE IF Len(ss) = 1 THEN ss[1]
    ELSE ss[1] \o sep \o JoinBytes(Tail(ss), sep)

\* The value list of rows: (f,...,f),(f,...,f),...
ValueListOf(rows) ==
    JoinBytes([r \in 1..Len(rows) |->
                  << LParen >> \o JoinBytes(rows[r], << Comma >>) \o << RParen >>],
              << Comma >>)

\* The rows batch k of a table of N rows holds.
RowsOfBatch(N, k) ==
    IF k * batchSize <= N THEN batchSize ELSE N - (k - 1) * batchSize

\* C20: reusing the writer's buffers corrupts no batch: the value list
\* submitted for a batch of n rows holds n tuples, each with one value per
\* column of the table, and nothing else (nothing of an earlier batch), and
\* its values are the ones drawn from the table's stream, whatever the text
\* scratch buffer was refilled with after they were appended.
C20_BufferReuseKeepsBatches ==
    \A t \in TableSet : \A k \in 1..Len(submitted[t]) :
        LET c == submitted[t][k]
            n == RowsOfBatch(tableRows[t], k)
            first == (k - 1) * batchSize
        IN  /\ Len(c.rows) = n
            /\ \A r \in 1..Len(c.rows) : Len(c.rows[r]) = Len(tableTypes[t])
            /\ c.values = ValueListOf(c.rows)
            /\ c.rows = SubSeq(DrawnRows(t, first + n).rows, first + 1, first + n)

\* A table with a text column has submitted a batch of two rows, for which
\* the scratch buffer was filled twice, and then, from the same buffer, a
\* smaller batch.
C20_Witness ==
    \E t \in TableSet : \E k \in 2..Len(submitted[t]) :
        /\ \E i \in 1..Len(tableTypes[t]) : tableTypes[t][i] = "Text"
        /\ Len(submitted[t][k - 1].rows) = 2
        /\ Len(submitted[t][k].rows) = 1
        /\ Len(submitted[t][k].values) < Len(submitted[t][k - 1].values)


(***************************************************************************)
(* The random streams of product and store.                                *)
(***************************************************************************)
\* The product table and the store table of the variant.
ProductTable == CHOOSE t \in TableSet : BaseTable(t) = Product
StoreTable == CHOOSE t \in TableSet : BaseTable(t) = Store

\* The rows of product and of store that both tables have submitted.
RowsInCommon ==
    1..(IF Len(RowsOf(ProductTable)) < Len(RowsOf(StoreTable))
        THEN Len(RowsOf(ProductTable)) ELSE Len(RowsOf(StoreTable)))

\* C21: product and store have the same column kinds, and row i of product
\* and row i of store hold the same values (foreign key, primary key and
\* both texts) for every i that both tables have submitted: once both
\* pipelines are done, for every i up to min(nProducts, nStores).
C21_ProductAndStoreRowsEqual ==
    /\ tableTypes[ProductTable] = tableTypes[StoreTable]
    /\ \A i \in RowsInCommon : RowsOf(ProductTable)[i] = RowsOf(StoreTable)[i]
    /\ (pc[ProductTable] = "done" /\ pc[StoreTable] = "done") =>
          /\ Len(RowsOf(ProductTable)) = nProducts
          /\ Len(RowsOf(StoreTable)) = nStores

\* Both pipelines are done with two rows each, drawn with two merchants to
\* choose the foreign keys from, and the two rows of a table differ in more
\* than the primary key.
C21_Witness ==
    /\ pc[ProductTable] = "done"
    /\ pc[StoreTable] = "done"
    /\ nMerchants = 2
    /\ Len(RowsOf(ProductTable)) = 2
    /\ Len(RowsOf(StoreTable)) = 2
    /\ RowsOf(StoreTable)[1][3] # RowsOf(StoreTable)[2][3]


(***************************************************************************)
(* The nil tick accumulator.                                               *)
(***************************************************************************)
\* C22: for every --concurrency >= 0, when the tick case has gone through
\* the workers its accumulator h has been assigned a snapshot, so that the
\* tick case never merges a nil accumulator into the cumulative histogram
\* nor asks one for its percentiles (either dereferences nil and panics).
C22_TickAccumulatorIsSet ==
    /\ mainPc = "tickReport" => ~hTick.nil
    /\ mainPc # "panic"

====
